---- MODULE Spec2Model ----
(***************************************************************************)
(* Model of GazeboRosVideo (gazebo_plugins/src/gazebo_ros_video.cpp):      *)
(* the command thread (QueueThread running the process* handlers), the     *)
(* playback thread (VideoThread) and the render callback (UpdateChild),    *)
(* sharing image_ under m_image_ and the playback fields under m_video_.   *)
(***************************************************************************)
EXTENDS Integers, Sequences, FiniteSets, TLC

\* ------------------------------------------------------------------------
\* Bounds of the model
\* ------------------------------------------------------------------------
\* configured display size of the visual (<height>, <width>)
Height == 2
Width == 2
\* number of frames of the video source "v1"
FramesV1 == 3
\* seek fractions are the rationals k / SeekDen
SeekDen == 3

\* ------------------------------------------------------------------------
\* Values
\* ------------------------------------------------------------------------
\* video_seek_position_ = -1 (no seek pending), as a numerator over SeekDen
NoSeek == 0 - SeekDen
\* fractions in [0,1]
ValidSeeks == 0..SeekDen
\* fractions outside [0,1]: -1/SeekDen and (SeekDen+1)/SeekDen
InvalidSeeks == {0 - 1, SeekDen + 1}
SeekArgs == ValidSeeks \cup InvalidSeeks

\* paths a set_video_path message can carry; "bad" cannot be opened
VideoPaths == {"", "v1", "bad"}
\* paths a set_image_path message can carry
ImagePaths == {"", "img"}
\* raw images a message on image_raw can carry
RawImages == {"raw"}

\* cap.get(CV_CAP_PROP_FRAME_COUNT) of an opened source
FrameCount(p) == IF p = "v1" THEN FramesV1 ELSE 0
\* cap.isOpened() after cap.open(p)
CanOpen(p) == p = "v1"
\* rows and columns of the frames a source decodes to: one more row than the
\* display has
SrcRows(p) == Height + 1
SrcCols(p) == Width

\* a cv::Mat: what it shows and its dimensions
Mat(k, s, i, r, c) == [k |-> k, src |-> s, i |-> i, rows |-> r, cols |-> c]
\* image_ not yet allocated
NoImage == Mat("none", "", 0, 0, 0)
\* cv::Mat::zeros(height, width, CV_8UC4)
ZeroFrame == Mat("zero", "", 0, Height, Width)
\* what reading a destroyed element of video_frames_ may yield besides an
\* empty matrix: stale pixel data of the display size
StaleFrame == Mat("stale", "", 0, Height, Width)
\* frame i of source p as cap.read delivers it
SourceFrame(p, i) == Mat("video", p, i, SrcRows(p), SrcCols(p))
\* cv::resize(m, ., Size(width, height))
Resize(m) == [m EXCEPT !.rows = Height, !.cols = Width]
\* number of bytes of the pixel data of a BGRA matrix
ByteLen(m) == m.rows * m.cols * 4

\* cv::imread(str): the picture stored at "img"; an empty matrix otherwise
ImRead(p) == IF p = "img" THEN Mat("image", p, 0, Height, Width) ELSE Mat("empty", "", 0, 0, 0)
\* cv_bridge::toCvCopy(msg, "bgra8"): the pushed picture, one column wider
\* than the display
ToCvCopy(r) == Mat("raw", r, 0, Height, Width + 1)
\* an updateImage that resizes what it stores to the display size
Stored_Resized(m) == IF m.k = "empty" THEN ZeroFrame ELSE Resize(m)
\* what updateImage(m) stores in image_->image: zeros of the display size
\* for an empty matrix, else the matrix colour-converted (same dimensions)
Stored(m) == IF m.k = "empty" THEN ZeroFrame ELSE m
\* a render that copies the image as it is
Rendered_NoResize(m) == m
\* what VideoVisual::render copies into the texture: the image resized to
\* the display size when its dimensions differ
Rendered(m) == IF m.rows # Height \/ m.cols # Width THEN Resize(m) ELSE m

\* ------------------------------------------------------------------------
\* State
\* ------------------------------------------------------------------------
VARIABLES
  image,                            \* image_->image, the shared frame slot
  new_image_available_,             \* the slot's dirty flag
  texture,                          \* pixel buffer of the render target
  m_image_,                         \* owner of the image lock
  m_video_,                         \* owner of the video lock
  stop_video_,
  video_paused_,
  new_video_available_,
  video_path_,
  video_seek_position_,             \* numerator over SeekDen
  loop_video_,
  buffer_all_frames_for_fast_seek_,
  video_frames_,
  current_buffered_frame_,
  cap_path,                         \* source cap has open, "" when none
  cap_pos,                          \* index of the frame cap.read gives next
  seek_performed,                   \* local of VideoThread
  vt_pc,                            \* position of VideoThread
  cmd_op,                           \* handler the command thread is running
  cmd_arg,                          \* its argument
  cmd_pc,                           \* its position
  dtor_pc                           \* position of ~GazeboRosVideo

slot == <<image, new_image_available_, texture>>
locks == <<m_image_, m_video_>>
config == <<loop_video_, buffer_all_frames_for_fast_seek_>>
playback == <<stop_video_, video_paused_, new_video_available_, video_path_,
              video_seek_position_>>
decoder == <<video_frames_, current_buffered_frame_, cap_path, cap_pos>>
vthread == <<seek_performed, vt_pc>>
cmd == <<cmd_op, cmd_arg, cmd_pc>>
life == <<dtor_pc>>
vars == <<slot, locks, config, playback, decoder, vthread, cmd, life>>

\* state at the end of Load without <defaultVideoPath> and <defaultImagePath>;
\* new_video_available_ is not initialised by the constructor or by Load
Init ==
  /\ image = NoImage
  /\ new_image_available_ = FALSE
  /\ texture = ZeroFrame
  /\ m_image_ = "free"
  /\ m_video_ = "free"
  /\ stop_video_ = FALSE
  /\ video_paused_ \in BOOLEAN
  /\ new_video_available_ \in BOOLEAN
  /\ video_path_ = ""
  /\ video_seek_position_ = NoSeek
  /\ loop_video_ \in BOOLEAN
  /\ buffer_all_frames_for_fast_seek_ \in BOOLEAN
  /\ video_frames_ = <<>>
  /\ current_buffered_frame_ = 0
  /\ cap_path = ""
  /\ cap_pos = 0
  /\ seek_performed = FALSE
  /\ vt_pc = "sleep"
  /\ cmd_op = "idle"
  /\ cmd_arg = "-"
  /\ cmd_pc = "-"
  /\ dtor_pc = "-"

\* rosnode_->ok(): true until the destructor calls rosnode_->shutdown()
NodeOk == dtor_pc = "-"

\* the process runs until a fault ends it
Running == vt_pc # "fault"

\* ------------------------------------------------------------------------
\* Render callback
\* ------------------------------------------------------------------------
UpdateChild ==
  /\ Running
  /\ dtor_pc = "-"
  /\ m_image_ = "free"
  /\ texture' = IF new_image_available_ THEN Rendered(image) ELSE texture
  /\ new_image_available_' = FALSE
  /\ UNCHANGED <<image, locks, config, life, playback, decoder, vthread, cmd>>

\* ------------------------------------------------------------------------
\* Command thread: QueueThread takes one message and runs its handler
\* ------------------------------------------------------------------------
Entry(op) ==
  CASE op = "image" -> "l386"
    [] op = "imagePath" -> "l396"
    [] op = "videoPath" -> "l410"
    [] op = "seek" -> "l427"
    [] op = "pause" -> "l433"

Args(op) ==
  CASE op = "image" -> RawImages
    [] op = "imagePath" -> ImagePaths
    [] op = "videoPath" -> VideoPaths
    [] op = "seek" -> SeekArgs
    [] op = "pause" -> BOOLEAN

QueueThread ==
  /\ Running
  /\ NodeOk
  /\ cmd_op = "idle"
  /\ \E op \in {"image", "imagePath", "videoPath", "seek", "pause"} :
       \E arg \in Args(op) :
         /\ cmd_op' = op
         /\ cmd_arg' = arg
         /\ cmd_pc' = Entry(op)
  /\ UNCHANGED <<slot, locks, config, life, playback, decoder, vthread>>

\* processImage: scoped_lock(m_image_), store the picture
processImage_Store ==
  /\ Running
  /\ cmd_op = "image" /\ cmd_pc = "l386"
  /\ m_image_ = "free"
  /\ m_image_' = "cmd"
  /\ image' = ToCvCopy(cmd_arg)
  /\ new_image_available_' = TRUE
  /\ cmd_pc' = "l390"
  /\ UNCHANGED <<texture, m_video_, config, life, playback, decoder, vthread,
                 cmd_op, cmd_arg>>

\* processImage: scoped_lock(m_video_) while m_image_ is held, stop the video
processImage_Stop ==
  /\ Running
  /\ cmd_op = "image" /\ cmd_pc = "l390"
  /\ m_video_ = "free"
  /\ m_video_' = "cmd"
  /\ stop_video_' = TRUE
  /\ cmd_pc' = "ret"
  /\ UNCHANGED <<slot, m_image_, config, life, video_paused_, new_video_available_,
                 video_path_, video_seek_position_, decoder, vthread,
                 cmd_op, cmd_arg>>

\* processImagePath: clearImage() or updateImage(imread(str))
processImagePath_Update ==
  /\ Running
  /\ cmd_op = "imagePath" /\ cmd_pc = "l396"
  /\ m_image_ = "free"
  /\ image' = Stored(ImRead(cmd_arg))
  /\ new_image_available_' = TRUE
  /\ cmd_pc' = "l404"
  /\ UNCHANGED <<texture, locks, config, life, playback, decoder, vthread,
                 cmd_op, cmd_arg>>

\* processImagePath: scoped_lock(m_video_), stop the video
processImagePath_Stop ==
  /\ Running
  /\ cmd_op = "imagePath" /\ cmd_pc = "l404"
  /\ m_video_ = "free"
  /\ m_video_' = "cmd"
  /\ stop_video_' = TRUE
  /\ cmd_pc' = "ret"
  /\ UNCHANGED <<slot, m_image_, config, life, video_paused_, new_video_available_,
                 video_path_, video_seek_position_, decoder, vthread,
                 cmd_op, cmd_arg>>

\* processVideoPath with the empty path leaving stop_video_ as it is
processVideoPath_Set_NoStop ==
  /\ Running
  /\ cmd_op = "videoPath" /\ cmd_pc = "l410"
  /\ m_video_ = "free"
  /\ m_video_' = "cmd"
  /\ video_path_' = cmd_arg
  /\ stop_video_' = IF cmd_arg = "" THEN stop_video_ ELSE FALSE
  /\ new_video_available_' = (cmd_arg # "")
  /\ cmd_pc' = IF cmd_arg = "" THEN "l416" ELSE "ret"
  /\ UNCHANGED <<slot, m_image_, config, life, video_paused_, video_seek_position_,
                 decoder, vthread, cmd_op, cmd_arg>>

\* processVideoPath: scoped_lock(m_video_), set the path and the flags
processVideoPath_Set ==
  /\ Running
  /\ cmd_op = "videoPath" /\ cmd_pc = "l410"
  /\ m_video_ = "free"
  /\ m_video_' = "cmd"
  /\ video_path_' = cmd_arg
  /\ stop_video_' = (cmd_arg = "")
  /\ new_video_available_' = (cmd_arg # "")
  /\ cmd_pc' = IF cmd_arg = "" THEN "l416" ELSE "ret"
  /\ UNCHANGED <<slot, m_image_, config, life, video_paused_, video_seek_position_,
                 decoder, vthread, cmd_op, cmd_arg>>

\* processVideoPath: clearImage() while m_video_ is held
processVideoPath_Clear ==
  /\ Running
  /\ cmd_op = "videoPath" /\ cmd_pc = "l416"
  /\ m_image_ = "free"
  /\ image' = ZeroFrame
  /\ new_image_available_' = TRUE
  /\ cmd_pc' = "ret"
  /\ UNCHANGED <<texture, locks, config, life, playback, decoder, vthread,
                 cmd_op, cmd_arg>>

\* processVideoSeek: scoped_lock(m_video_), store the value as it comes
processVideoSeek ==
  /\ Running
  /\ cmd_op = "seek" /\ cmd_pc = "l427"
  /\ m_video_ = "free"
  /\ m_video_' = "cmd"
  /\ video_seek_position_' = cmd_arg
  /\ cmd_pc' = "ret"
  /\ UNCHANGED <<slot, m_image_, config, life, stop_video_, video_paused_,
                 new_video_available_, video_path_, decoder, vthread,
                 cmd_op, cmd_arg>>

\* processVideoPause without the test of stop_video_
processVideoPause_NoTest ==
  /\ Running
  /\ cmd_op = "pause" /\ cmd_pc = "l433"
  /\ m_video_ = "free"
  /\ m_video_' = "cmd"
  /\ video_paused_' = cmd_arg
  /\ cmd_pc' = "ret"
  /\ UNCHANGED <<slot, m_image_, config, life, stop_video_, new_video_available_,
                 video_path_, video_seek_position_, decoder, vthread,
                 cmd_op, cmd_arg>>

\* processVideoPause: scoped_lock(m_video_), set the flag unless stopped
processVideoPause ==
  /\ Running
  /\ cmd_op = "pause" /\ cmd_pc = "l433"
  /\ m_video_ = "free"
  /\ m_video_' = "cmd"
  /\ video_paused_' = IF ~stop_video_ THEN cmd_arg ELSE video_paused_
  /\ cmd_pc' = "ret"
  /\ UNCHANGED <<slot, m_image_, config, life, stop_video_, new_video_available_,
                 video_path_, video_seek_position_, decoder, vthread,
                 cmd_op, cmd_arg>>

\* end of a handler: its scoped locks are released
HandlerReturn ==
  /\ Running
  /\ cmd_pc = "ret"
  /\ m_image_' = IF m_image_ = "cmd" THEN "free" ELSE m_image_
  /\ m_video_' = IF m_video_ = "cmd" THEN "free" ELSE m_video_
  /\ cmd_op' = "idle"
  /\ cmd_arg' = "-"
  /\ cmd_pc' = "-"
  /\ UNCHANGED <<slot, config, life, playback, decoder, vthread>>

\* ------------------------------------------------------------------------
\* Playback thread: one iteration of the loop of VideoThread
\* ------------------------------------------------------------------------
\* video_seek_position_ >= 0 && video_seek_position_ <= 1
SeekPending == video_seek_position_ >= 0 /\ video_seek_position_ <= SeekDen

\* all frames of source p, each resized to the display size
BufferAll(p) == [i \in 1..FrameCount(p) |-> Resize(SourceFrame(p, i - 1))]

\* the seek index rounded to the nearest frame
BufferedSeekIndex_Rounded(n, f) ==
  (2 * (n - 1) * f + SeekDen) \div (2 * SeekDen)
\* (video_frames_.size() - 1) * video_seek_position_, converted to size_t
BufferedSeekIndex(n, f) == ((n - 1) * f) \div SeekDen

\* cap.get(CV_CAP_PROP_FRAME_COUNT) * video_seek_position_, as the frame
\* index cap.set(CV_CAP_PROP_POS_FRAMES, .) moves to
StreamSeekIndex(n, f) == (n * f) \div SeekDen

\* while (rosnode_->ok()), m_video_.lock() and the test of stop_video_ and
\* new_video_available_; once rosnode_ is deleted the loop test reads freed
\* memory and may give either answer
VT_Lock ==
  /\ vt_pc = "sleep"
  /\ NodeOk \/ dtor_pc = "end"
  /\ m_video_ = "free"
  /\ m_video_' = "vt"
  /\ vt_pc' = IF stop_video_ THEN "l592"
              ELSE IF new_video_available_ /\ video_path_ # "" THEN "l503"
              ELSE "l536"
  /\ UNCHANGED <<slot, m_image_, config, life, playback, decoder, seek_performed, cmd>>

\* clearImage() before the new source is opened
VT_OpenClear ==
  /\ vt_pc = "l503"
  /\ m_image_ = "free"
  /\ image' = ZeroFrame
  /\ new_image_available_' = TRUE
  /\ vt_pc' = "l504"
  /\ UNCHANGED <<texture, locks, config, life, playback, decoder, seek_performed, cmd>>

\* cap.open(video_path_) and, in buffering mode, the decoding of all frames
VT_Open ==
  /\ vt_pc = "l504"
  /\ cap_path' = IF CanOpen(video_path_) THEN video_path_ ELSE ""
  /\ new_video_available_' = FALSE
  /\ IF buffer_all_frames_for_fast_seek_
       THEN /\ video_frames_' = BufferAll(video_path_)
            /\ current_buffered_frame_' = 0
            /\ cap_pos' = FrameCount(video_path_)
       ELSE /\ cap_pos' = 0
            /\ UNCHANGED <<video_frames_, current_buffered_frame_>>
  /\ vt_pc' = "l536"
  /\ UNCHANGED <<slot, locks, config, life, stop_video_, video_paused_, video_path_,
                 video_seek_position_, seek_performed, cmd>>

\* a buffered tick that leaves the cursor where it is on an overrun
VT_Buffered_NoReset ==
  /\ vt_pc = "l536"
  /\ buffer_all_frames_for_fast_seek_ /\ video_frames_ # <<>>
  /\ LET n == Len(video_frames_)
         sought == IF SeekPending THEN BufferedSeekIndex(n, video_seek_position_)
                   ELSE current_buffered_frame_
         overrun == sought >= n
     IN /\ seek_performed' = SeekPending
        /\ video_seek_position_' = IF SeekPending THEN NoSeek ELSE video_seek_position_
        /\ current_buffered_frame_' = sought
        /\ stop_video_' = IF overrun /\ ~loop_video_ THEN TRUE ELSE stop_video_
        /\ vt_pc' = IF overrun /\ ~loop_video_ THEN "l553"
                    ELSE IF SeekPending \/ ~video_paused_ THEN "l560"
                    ELSE "l592"
  /\ UNCHANGED <<slot, locks, config, life, video_paused_, new_video_available_,
                 video_path_, video_frames_, cap_path, cap_pos, cmd>>

\* buffering mode: the seek, the overrun test and the choice of what to write
VT_Buffered ==
  /\ vt_pc = "l536"
  /\ buffer_all_frames_for_fast_seek_ /\ video_frames_ # <<>>
  /\ LET n == Len(video_frames_)
         sought == IF SeekPending THEN BufferedSeekIndex(n, video_seek_position_)
                   ELSE current_buffered_frame_
         overrun == sought >= n
     IN /\ seek_performed' = SeekPending
        /\ video_seek_position_' = IF SeekPending THEN NoSeek ELSE video_seek_position_
        /\ current_buffered_frame_' = IF overrun THEN 0 ELSE sought
        /\ stop_video_' = IF overrun /\ ~loop_video_ THEN TRUE ELSE stop_video_
        /\ vt_pc' = IF overrun /\ ~loop_video_ THEN "l553"
                    ELSE IF SeekPending \/ ~video_paused_ THEN "l560"
                    ELSE "l592"
  /\ UNCHANGED <<slot, locks, config, life, video_paused_, new_video_available_,
                 video_path_, video_frames_, cap_path, cap_pos, cmd>>

\* buffering mode, overrun without looping: clearImage(), video_frames_.clear()
VT_BufferedClear ==
  /\ vt_pc = "l553"
  /\ m_image_ = "free"
  /\ image' = ZeroFrame
  /\ new_image_available_' = TRUE
  /\ video_frames_' = <<>>
  /\ vt_pc' = IF seek_performed \/ ~video_paused_ THEN "l560" ELSE "l592"
  /\ UNCHANGED <<texture, locks, config, life, playback, current_buffered_frame_,
                 cap_path, cap_pos, seek_performed, cmd>>

\* what video_frames_[current_buffered_frame_] reads: the buffered frame, or,
\* past the end of the vector, an empty matrix or stale pixel data
BufferedRead ==
  IF current_buffered_frame_ < Len(video_frames_)
    THEN {video_frames_[current_buffered_frame_ + 1]}
    ELSE {Mat("empty", "", 0, 0, 0), StaleFrame}

\* buffering mode: updateImage(video_frames_[current_buffered_frame_++])
VT_BufferedUpdate ==
  /\ vt_pc = "l560"
  /\ m_image_ = "free"
  /\ \E m \in BufferedRead : image' = Stored(m)
  /\ new_image_available_' = TRUE
  /\ current_buffered_frame_' = current_buffered_frame_ + 1
  /\ vt_pc' = "l592"
  /\ UNCHANGED <<texture, locks, config, life, playback, video_frames_, cap_path,
                 cap_pos, seek_performed, cmd>>

\* buffering mode: the read past the end of video_frames_ ends the process
VT_BufferedFault ==
  /\ vt_pc = "l560"
  /\ current_buffered_frame_ >= Len(video_frames_)
  /\ vt_pc' = "fault"
  /\ UNCHANGED <<slot, locks, config, life, playback, decoder, seek_performed, cmd>>

\* streaming mode: the seek, cap.read(frame) and the choice of what to write
VT_Streaming ==
  /\ vt_pc = "l536"
  /\ ~(buffer_all_frames_for_fast_seek_ /\ video_frames_ # <<>>)
  /\ cap_path # ""
  /\ LET n == FrameCount(cap_path)
         pos == IF SeekPending THEN StreamSeekIndex(n, video_seek_position_)
                ELSE cap_pos
         reads == SeekPending \/ ~video_paused_
         got == pos < n
     IN /\ seek_performed' = SeekPending
        /\ video_seek_position_' = IF SeekPending THEN NoSeek ELSE video_seek_position_
        /\ cap_pos' = IF ~reads THEN pos
                      ELSE IF got THEN pos + 1
                      ELSE IF loop_video_ THEN 0
                      ELSE pos
        /\ cap_path' = IF reads /\ ~got /\ loop_video_ /\ ~CanOpen(video_path_)
                         THEN ""
                       ELSE IF reads /\ ~got /\ loop_video_ THEN video_path_
                       ELSE cap_path
        /\ stop_video_' = IF reads /\ ~got /\ ~loop_video_ THEN TRUE ELSE stop_video_
        /\ vt_pc' = IF ~reads THEN "l592"
                    ELSE IF got THEN "l577"
                    ELSE IF loop_video_ THEN "l592"
                    ELSE "l586"
  /\ UNCHANGED <<slot, locks, config, life, video_paused_, new_video_available_,
                 video_path_, video_frames_, current_buffered_frame_, cmd>>

\* streaming mode: updateImage(frame) with the frame cap.read delivered
VT_StreamingUpdate ==
  /\ vt_pc = "l577"
  /\ m_image_ = "free"
  /\ image' = Stored(SourceFrame(cap_path, cap_pos - 1))
  /\ new_image_available_' = TRUE
  /\ vt_pc' = "l592"
  /\ UNCHANGED <<texture, locks, config, life, playback, decoder, seek_performed, cmd>>

\* streaming mode, end of stream without looping: clearImage()
VT_StreamingClear ==
  /\ vt_pc = "l586"
  /\ m_image_ = "free"
  /\ image' = ZeroFrame
  /\ new_image_available_' = TRUE
  /\ vt_pc' = "l592"
  /\ UNCHANGED <<texture, locks, config, life, playback, decoder, seek_performed, cmd>>

\* a tick without a source that ends the playback as an end of stream does
VT_NoSource_AsEndOfStream ==
  /\ vt_pc = "l536"
  /\ ~(buffer_all_frames_for_fast_seek_ /\ video_frames_ # <<>>)
  /\ cap_path = ""
  /\ stop_video_' = ~loop_video_
  /\ vt_pc' = "l592"
  /\ UNCHANGED <<slot, locks, config, life, video_paused_,
                 new_video_available_, video_path_, video_seek_position_,
                 decoder, seek_performed, cmd>>

\* neither frames buffered nor a source open: nothing to do
VT_NoSource ==
  /\ vt_pc = "l536"
  /\ ~(buffer_all_frames_for_fast_seek_ /\ video_frames_ # <<>>)
  /\ cap_path = ""
  /\ vt_pc' = "l592"
  /\ UNCHANGED <<slot, locks, config, life, playback, decoder, seek_performed, cmd>>

\* m_video_.unlock(), then the sleep until the next tick
VT_Unlock ==
  /\ vt_pc = "l592"
  /\ m_video_' = "free"
  /\ seek_performed' = FALSE
  /\ vt_pc' = "sleep"
  /\ UNCHANGED <<slot, m_image_, config, life, playback, decoder, cmd>>

VideoThread ==
  \/ VT_Lock
  \/ VT_OpenClear
  \/ VT_Open
  \/ VT_Buffered
  \/ VT_BufferedClear
  \/ VT_BufferedUpdate
  \/ VT_BufferedFault
  \/ VT_Streaming
  \/ VT_StreamingUpdate
  \/ VT_StreamingClear
  \/ VT_NoSource
  \/ VT_Unlock

Handler ==
  \/ processImage_Store
  \/ processImage_Stop
  \/ processImagePath_Update
  \/ processImagePath_Stop
  \/ processVideoPath_Set
  \/ processVideoPath_Clear
  \/ processVideoSeek
  \/ processVideoPause
  \/ HandlerReturn

Next ==
  \/ UpdateChild
  \/ QueueThread
  \/ processImage_Store
  \/ processImage_Stop
  \/ processImagePath_Update
  \/ processImagePath_Stop
  \/ processVideoPath_Set
  \/ processVideoPath_Clear
  \/ processVideoSeek
  \/ processVideoPause
  \/ HandlerReturn
  \/ VT_Lock
  \/ VT_OpenClear
  \/ VT_Open
  \/ VT_Buffered
  \/ VT_BufferedClear
  \/ VT_BufferedUpdate
  \/ VT_BufferedFault
  \/ VT_Streaming
  \/ VT_StreamingUpdate
  \/ VT_StreamingClear
  \/ VT_NoSource
  \/ VT_Unlock

Spec == Init /\ [][Next]_vars

\* scheduling: a handler waiting for a lock gets it once the lock is free
\* again and again (VideoThread sleeps between two ticks with m_video_
\* released); the playback loop and the render callback keep running
FairSpec ==
  /\ Spec
  /\ SF_vars(Handler)
  /\ WF_vars(VideoThread)
  /\ WF_vars(UpdateChild)

\* ------------------------------------------------------------------------
\* The scenario of one source played to its end: loopVideo = false, not
\* paused, set_video_path "v1" once and no other message
\* ------------------------------------------------------------------------
ScenarioInit == Init /\ ~loop_video_ /\ ~video_paused_

Scenario_SetSource ==
  /\ Running
  /\ NodeOk
  /\ cmd_op = "idle"
  /\ video_path_ = ""
  /\ cmd_op' = "videoPath"
  /\ cmd_arg' = "v1"
  /\ cmd_pc' = Entry("videoPath")
  /\ UNCHANGED <<slot, locks, config, life, playback, decoder, vthread>>

ScenarioNext ==
  \/ Scenario_SetSource
  \/ processVideoPath_Set
  \/ HandlerReturn
  \/ UpdateChild
  \/ VT_Lock
  \/ VT_OpenClear
  \/ VT_Open
  \/ VT_Buffered
  \/ VT_BufferedClear
  \/ VT_BufferedUpdate
  \/ VT_BufferedFault
  \/ VT_Streaming
  \/ VT_StreamingUpdate
  \/ VT_StreamingClear
  \/ VT_NoSource
  \/ VT_Unlock

ScenarioSpec == ScenarioInit /\ [][ScenarioNext]_vars

\* ------------------------------------------------------------------------
\* The scenario of a seek that precedes its source: set_video_seek messages
\* arrive only while no source is set, then set_video_path "v1" once
\* ------------------------------------------------------------------------
Scenario_SeekBeforeSource ==
  /\ Running
  /\ NodeOk
  /\ cmd_op = "idle"
  /\ video_path_ = ""
  /\ \E f \in ValidSeeks :
       /\ cmd_op' = "seek"
       /\ cmd_arg' = f
       /\ cmd_pc' = Entry("seek")
  /\ UNCHANGED <<slot, locks, config, life, playback, decoder, vthread>>

StaleSeekNext ==
  \/ Scenario_SeekBeforeSource
  \/ Scenario_SetSource
  \/ processVideoSeek
  \/ processVideoPath_Set
  \/ HandlerReturn
  \/ UpdateChild
  \/ VT_Lock
  \/ VT_OpenClear
  \/ VT_Open
  \/ VT_Buffered
  \/ VT_BufferedClear
  \/ VT_BufferedUpdate
  \/ VT_BufferedFault
  \/ VT_Streaming
  \/ VT_StreamingUpdate
  \/ VT_StreamingClear
  \/ VT_NoSource
  \/ VT_Unlock

StaleSeekSpec == Init /\ [][StaleSeekNext]_vars

\* ------------------------------------------------------------------------
\* Shutdown: ~GazeboRosVideo while a source may be playing
\* ------------------------------------------------------------------------
\* update_connection_.reset(), queue_.clear(), queue_.disable(),
\* rosnode_->shutdown()
Destructor_Shutdown ==
  /\ Running
  /\ dtor_pc = "-"
  /\ dtor_pc' = "l160"
  /\ UNCHANGED <<slot, locks, config, playback, decoder, vthread, cmd>>

\* QueueThread leaves its loop: rosnode_->ok() is false
QueueThread_Exit ==
  /\ Running
  /\ cmd_op = "idle"
  /\ dtor_pc \in {"l160", "l162"}
  /\ cmd_op' = "exit"
  /\ UNCHANGED <<slot, locks, config, playback, decoder, vthread, cmd_arg,
                 cmd_pc, life>>

\* VideoThread leaves its loop: rosnode_->ok() is false, or the test reads
\* the deleted node
VT_Exit ==
  /\ vt_pc = "sleep"
  /\ ~NodeOk
  /\ vt_pc' = "exit"
  /\ UNCHANGED <<slot, locks, config, playback, decoder, seek_performed, cmd,
                 life>>

\* callback_queue_thread_.join()
Destructor_Join ==
  /\ Running
  /\ dtor_pc = "l160"
  /\ cmd_op = "exit"
  /\ dtor_pc' = "l162"
  /\ UNCHANGED <<slot, locks, config, playback, decoder, vthread, cmd>>

\* delete rosnode_
Destructor_Delete ==
  /\ Running
  /\ dtor_pc = "l162"
  /\ dtor_pc' = "end"
  /\ UNCHANGED <<slot, locks, config, playback, decoder, vthread, cmd>>

ShutdownNext ==
  \/ Scenario_SetSource
  \/ processVideoPath_Set
  \/ HandlerReturn
  \/ UpdateChild
  \/ VT_Lock
  \/ VT_OpenClear
  \/ VT_Open
  \/ VT_Buffered
  \/ VT_BufferedClear
  \/ VT_BufferedUpdate
  \/ VT_BufferedFault
  \/ VT_Streaming
  \/ VT_StreamingUpdate
  \/ VT_StreamingClear
  \/ VT_NoSource
  \/ VT_Unlock
  \/ VT_Exit
  \/ QueueThread_Exit
  \/ Destructor_Shutdown
  \/ Destructor_Join
  \/ Destructor_Delete

ShutdownSpec == Init /\ [][ShutdownNext]_vars

\* ------------------------------------------------------------------------
\* Shorthands of the properties
\* ------------------------------------------------------------------------
\* the command thread waits for m_video_ / VideoThread waits for m_image_
CmdWaitsVideoLock == cmd_pc \in {"l390", "l404", "l410", "l427", "l433"}
VTWaitsImageLock == vt_pc \in {"l503", "l553", "l560", "l577", "l586"}
\* VideoThread is about to write the frame of this tick to the slot
VTWrites == vt_pc \in {"l553", "l560", "l577", "l586"}
\* a source is open and the video is not stopped
Playing == ~stop_video_ /\ ~new_video_available_ /\ cap_path # ""
\* the frames VideoThread takes from: the buffer, or the opened source
SourceOpen ==
  \/ buffer_all_frames_for_fast_seek_ /\ video_frames_ # <<>>
  \/ cap_path # ""

\* ------------------------------------------------------------------------
\* Properties
\* ------------------------------------------------------------------------

\* C1 (as claimed): a raw image pushed while a video is playing stops the
\* video within one tick: once processImage has stored the image it is never
\* stuck before stop_video_ is set, that is, either it can take m_video_ or
\* VideoThread, which holds m_video_, can go on to the end of its tick.
C1_PushStopsVideo ==
  (Running /\ cmd_op = "image" /\ cmd_pc = "l390")
    => (ENABLED processImage_Stop \/ ENABLED VideoThread)

\* C2 (as claimed): no reachable state has the command thread and VideoThread
\* waiting for m_video_ and m_image_ in a cycle (each holding the lock the
\* other one waits for), which would keep UpdateChild from ever acquiring
\* m_image_.
C2_NoLockCycle ==
  ~(/\ CmdWaitsVideoLock /\ m_video_ = "vt"
    /\ VTWaitsImageLock /\ m_image_ = "cmd")

\* C3 (as claimed): when processImagePath(path), called while a video is
\* playing, has set stop_video_, the slot holds the image it wrote: no frame
\* of the video, written by VideoThread in between, has replaced it.
C3_ImagePathKeepsImage ==
  [][(cmd_op = "imagePath" /\ cmd_pc = "l404" /\ cmd_pc' = "ret")
       => (stop_video_' /\ image'.k # "video")]_vars

\* C4 (as claimed): the tick that reaches the end of the source with
\* loop_video_ = false ends with stop_video_ set and the all-zero frame in
\* the slot, whatever it wrote last; with loop_video_ = true the buffered
\* cursor goes back to frame 0, which is the frame written.
C4_EndOfSource ==
  [][/\ (VTWrites /\ vt_pc' = "l592" /\ stop_video_' /\ ~loop_video_)
          => image' = ZeroFrame
     /\ (/\ vt_pc = "l536" /\ vt_pc' # "l536"
         /\ buffer_all_frames_for_fast_seek_ /\ video_frames_ # <<>>
         /\ ~SeekPending /\ ~video_paused_ /\ loop_video_
         /\ current_buffered_frame_ >= Len(video_frames_))
          => (vt_pc' = "l560" /\ current_buffered_frame_' = 0)]_vars

\* C5 (as claimed), in the scenario of one source of FramesV1 frames played
\* without looping: between two ticks, while the video is not stopped the
\* slot holds the frame before the playback position, and once it is stopped
\* the slot holds the all-zero frame of Height * Width * 4 bytes, which is
\* also what a sample has copied to the texture.
C5_ScenarioFrames ==
  (vt_pc = "sleep" /\ video_path_ = "v1" /\ ~new_video_available_)
    => IF ~stop_video_
         THEN LET pos == IF buffer_all_frames_for_fast_seek_
                           THEN current_buffered_frame_ ELSE cap_pos
              IN /\ pos \in 1..FramesV1
                 /\ image.k = "video" /\ image.src = "v1" /\ image.i = pos - 1
         ELSE /\ image = ZeroFrame
              /\ ByteLen(image) = Height * Width * 4
              /\ ~new_image_available_ => texture = ZeroFrame

\* C7 (as claimed): a tick of a paused video that performed no seek leaves
\* the frame of the slot unchanged.
C7_PausedTickKeepsFrame ==
  [][(VTWrites /\ vt_pc' # vt_pc /\ video_paused_ /\ ~seek_performed)
       => image' = image]_vars

\* C8 (as claimed): processVideoSeek with a fraction outside [0,1] leaves a
\* pending valid seek as it was.
C8_InvalidSeekIgnored ==
  [][(/\ cmd_op = "seek" /\ cmd_pc = "l427" /\ cmd_pc' = "ret"
      /\ cmd_arg \notin ValidSeeks /\ SeekPending)
       => video_seek_position_' = video_seek_position_]_vars

\* C9 (as claimed): a tick that finds a valid seek pending on an open source
\* consumes it and goes on to write a frame of the source to the slot.
C9_SeekWritesFrame ==
  [][(vt_pc = "l536" /\ vt_pc' # "l536" /\ SeekPending /\ SourceOpen)
       => (video_seek_position_' = NoSeek /\ vt_pc' \in {"l560", "l577"})]_vars

\* C6: stop_video_ goes from true to false only in processVideoPath called
\* with a non-empty path; and when processVideoPath("") has run, stop_video_
\* is true and the all-zero frame is in the slot, where a sample copies it to
\* the texture.
C6_EmptyPathStops ==
  [][/\ (stop_video_ /\ ~stop_video_')
          => (cmd_op = "videoPath" /\ cmd_arg # "")
     /\ (cmd_op' = "videoPath" /\ cmd_pc' = "ret" /\ cmd_arg' = "")
          => (stop_video_' /\ image' = ZeroFrame)
     /\ (new_image_available_ /\ ~new_image_available_' /\ image = ZeroFrame)
          => texture' = ZeroFrame]_vars

\* C6 witness: a playing video was stopped with the empty path; afterwards a
\* seek was stored and the playback loop and the render callback have run
\* on: the video is still stopped and the sample is the all-zero frame.
C6_Witness ==
  /\ video_path_ = "" /\ stop_video_
  /\ cap_path = "v1" /\ cap_pos > 0
  /\ SeekPending
  /\ vt_pc = "l592"
  /\ image = ZeroFrame /\ ~new_image_available_ /\ texture = ZeroFrame

\* C10: processVideoPause(value) changes nothing when stop_video_ is true;
\* when it is false it sets video_paused_ to value and nothing else.
C10_PauseIgnoredWhileStopped ==
  [][(cmd_op = "pause" /\ cmd_pc = "l433" /\ cmd_pc' = "ret")
       => /\ video_paused_' = IF stop_video_ THEN video_paused_ ELSE cmd_arg
          /\ UNCHANGED <<slot, config, life, stop_video_, new_video_available_,
                         video_path_, video_seek_position_, decoder>>]_vars

\* C10 witness: pause(true) has run on a stopped video and was ignored.
C10_Witness ==
  /\ cmd_op = "pause" /\ cmd_pc = "ret" /\ cmd_arg = TRUE
  /\ stop_video_ /\ ~video_paused_

\* C11: under every interleaving, the frame UpdateChild copies into the
\* render target has exactly Height * Width * 4 bytes and is one whole frame
\* of one writer: the copy is taken from the slot while no writer holds
\* m_image_, the slot is not written during the copy, and a writer changes
\* the slot only when it finds m_image_ free, whatever the dimensions of the
\* frame in the slot.
C11_RenderedFrameWhole ==
  [][/\ texture' # texture =>
          /\ m_image_ = "free" /\ m_image_' = "free"
          /\ new_image_available_
          /\ image' = image
          /\ texture' = Rendered(image)
          /\ ByteLen(texture') = Height * Width * 4
     /\ image' # image => m_image_ = "free"]_vars

\* a streamed frame, one row taller than the display in the slot, reached the
\* render target
C11_Witness ==
  /\ ~buffer_all_frames_for_fast_seek_
  /\ ByteLen(SourceFrame("v1", 1)) # Height * Width * 4
  /\ texture = Resize(SourceFrame("v1", 1))

\* C12: the destructor joins both threads before it releases the resources:
\* rosnode_ is deleted only after QueueThread and VideoThread have left
\* their loops.
C12_ThreadsJoinedBeforeDelete ==
  dtor_pc = "end" => (cmd_op = "exit" /\ vt_pc = "exit")

\* C13: pre-buffering blocks only the playback thread: while VideoThread
\* opens a source and decodes all its frames into video_frames_, a handler
\* the command thread is running can take its next step without waiting for
\* the decoding to end.
C13_PrebufferingBlocksOnlyPlayback ==
  (/\ Running
   /\ vt_pc = "l504"
   /\ buffer_all_frames_for_fast_seek_
   /\ CanOpen(video_path_)
   /\ cmd_op \notin {"idle", "exit"})
  => ENABLED Handler

\* C14 as stated: a source that fails to open is treated as the end of the
\* stream on the first tick: with loop_video_ false, the tick that finds no
\* source open for the path "bad" sets stop_video_.
C14_FailedOpenIsEndOfStream ==
  [][(/\ vt_pc = "l536" /\ vt_pc' # "l536"
      /\ ~SourceOpen
      /\ video_path_ # "" /\ ~CanOpen(video_path_)
      /\ ~loop_video_)
     => stop_video_']_vars

\* C14 amended: a source that fails to open is not treated as the end of the
\* stream. The tick that tries to open it writes the all-zero frame before
\* the attempt and leaves no source open, no frame buffered and stop_video_
\* as it was; a tick that finds no source open writes nothing, stops nothing
\* and does not open again, with loop_video_ true or false.
C14_FailedOpenIdles ==
  [][/\ (vt_pc = "l503" /\ vt_pc' = "l504") =>
          (image' = ZeroFrame /\ new_image_available_')
     /\ (vt_pc = "l504" /\ vt_pc' = "l536" /\ ~CanOpen(video_path_)) =>
          /\ cap_path' = "" /\ video_frames_' = <<>>
          /\ ~new_video_available_'
          /\ UNCHANGED <<image, stop_video_>>
     /\ (vt_pc = "l536" /\ vt_pc' # "l536" /\ ~SourceOpen) =>
          /\ vt_pc' = "l592"
          /\ UNCHANGED <<image, new_image_available_, playback, decoder>>
    ]_vars

\* after the tick that failed to open "bad": not stopped, nothing open, the
\* slot cleared
C14_Witness ==
  /\ vt_pc = "l592"
  /\ video_path_ = "bad" /\ ~new_video_available_
  /\ cap_path = "" /\ video_frames_ = <<>>
  /\ ~stop_video_ /\ ~loop_video_
  /\ image = ZeroFrame

\* C15: the two lock domains are never nested: no thread holds m_video_ and
\* m_image_ at the same time.
C15_LocksNeverNested ==
  \A t \in {"cmd", "vt"} : ~(m_image_ = t /\ m_video_ = t)

\* C16 as stated: every frame stored in the slot by any writer has exactly
\* the configured display dimensions.
C16_SlotHasDisplaySize ==
  image # NoImage => (image.rows = Height /\ image.cols = Width)

\* C16 amended: the slot holds a frame of the display size only when it was
\* written by clearImage or taken from the pre-buffered frames; streaming
\* playback, processImagePath and processImage store the frame with the
\* dimensions of its source, and the resize to the display size happens
\* after the write, when render samples the slot into the render target.
C16_SlotKeepsSourceSize ==
  /\ image.k = "zero" => image = ZeroFrame
  /\ (image.k = "video" /\ buffer_all_frames_for_fast_seek_) =>
       (image.rows = Height /\ image.cols = Width)
  /\ (image.k = "video" /\ ~buffer_all_frames_for_fast_seek_) =>
       (image.rows = SrcRows(image.src) /\ image.cols = SrcCols(image.src))
  /\ image.k = "image" => image = ImRead(image.src)
  /\ image.k = "raw" => image = ToCvCopy(image.src)
  /\ texture.rows = Height /\ texture.cols = Width

\* the slot holds a streamed frame taller than the display, and the render
\* target its resized copy
C16_Witness ==
  /\ ~buffer_all_frames_for_fast_seek_
  /\ image = SourceFrame("v1", 0)
  /\ image.rows # Height
  /\ ~new_image_available_
  /\ texture = Resize(image)

\* C17 as stated: in buffering mode, between two ticks with video_frames_
\* non-empty, 0 <= current_buffered_frame_ < video_frames_.size().
C17_CursorInsideBuffer ==
  (vt_pc = "sleep" /\ buffer_all_frames_for_fast_seek_ /\ video_frames_ # <<>>)
  => (current_buffered_frame_ >= 0
      /\ current_buffered_frame_ < Len(video_frames_))

\* C17 amended: in buffering mode, between two ticks with video_frames_
\* non-empty, 0 <= current_buffered_frame_ <= video_frames_.size(); the
\* cursor equals the size after the last frame was written. The next tick
\* that finds the cursor at or past the size resets it to 0 and, when
\* loop_video_ is false, sets stop_video_, clears the slot and empties
\* video_frames_.
C17_CursorUpToSize ==
  [][/\ (/\ vt_pc' = "sleep"
         /\ buffer_all_frames_for_fast_seek_
         /\ video_frames_' # <<>>)
        => (current_buffered_frame_' >= 0
            /\ current_buffered_frame_' <= Len(video_frames_'))
     /\ (/\ vt_pc = "l536" /\ vt_pc' # "l536"
         /\ buffer_all_frames_for_fast_seek_
         /\ video_frames_ # <<>>
         /\ ~SeekPending
         /\ current_buffered_frame_ >= Len(video_frames_))
        => /\ current_buffered_frame_' = 0
           /\ ~loop_video_ => (stop_video_' /\ vt_pc' = "l553")
           /\ loop_video_ => UNCHANGED stop_video_
     /\ (vt_pc = "l553" /\ vt_pc' # "l553")
        => (image' = ZeroFrame /\ video_frames_' = <<>>)
    ]_vars

\* between two ticks, after the last buffered frame was written: the cursor
\* equals the size of the buffer
C17_Witness ==
  /\ vt_pc = "sleep"
  /\ buffer_all_frames_for_fast_seek_
  /\ video_frames_ # <<>>
  /\ current_buffered_frame_ = Len(video_frames_)
  /\ image = video_frames_[Len(video_frames_)]

\* C18 as stated: in buffering mode with N frames buffered, a seek to the
\* fraction f sets current_buffered_frame_ to (N - 1) * f rounded to the
\* nearest integer.
C18_SeekRoundsToNearest ==
  [][(/\ vt_pc = "l536" /\ vt_pc' # "l536"
      /\ buffer_all_frames_for_fast_seek_
      /\ video_frames_ # <<>>
      /\ SeekPending)
     => current_buffered_frame_' =
          (2 * (Len(video_frames_) - 1) * video_seek_position_ + SeekDen)
            \div (2 * SeekDen)]_vars

\* C18 amended: in buffering mode with N frames buffered, a seek to the
\* fraction f sets current_buffered_frame_ to (N - 1) * f rounded down, and
\* the frame written in that tick is the buffered frame at that index, after
\* which the cursor is one past it.
C18_SeekRoundsDown ==
  [][/\ (/\ vt_pc = "l536" /\ vt_pc' # "l536"
         /\ buffer_all_frames_for_fast_seek_
         /\ video_frames_ # <<>>
         /\ SeekPending)
        => /\ current_buffered_frame_' =
                ((Len(video_frames_) - 1) * video_seek_position_) \div SeekDen
           /\ seek_performed'
           /\ vt_pc' = "l560"
     /\ (vt_pc = "l560" /\ vt_pc' # "l560" /\ seek_performed)
        => /\ current_buffered_frame_ < Len(video_frames_)
           /\ image' = video_frames_[current_buffered_frame_ + 1]
           /\ new_image_available_'
           /\ current_buffered_frame_' = current_buffered_frame_ + 1
    ]_vars

\* a tick in buffering mode is at the seek with a fraction f pending for
\* which (N - 1) * f is not an integer and rounds up to the nearest
C18_Witness ==
  /\ vt_pc = "l536"
  /\ buffer_all_frames_for_fast_seek_
  /\ video_frames_ # <<>>
  /\ SeekPending
  /\ 2 * (((Len(video_frames_) - 1) * video_seek_position_) % SeekDen)
       >= SeekDen

\* C19: every read video_frames_[current_buffered_frame_] is in bounds: when
\* VideoThread is at the read of line 560, current_buffered_frame_ is less
\* than video_frames_.size(); in particular the read is not made in the tick
\* that has just emptied video_frames_ and set stop_video_.
C19_BufferedReadInBounds ==
  vt_pc = "l560" =>
    (current_buffered_frame_ < Len(video_frames_) /\ ~stop_video_)

\* C20: a pending seek does not outlive its source: when the only seeks are
\* issued while no source is set and a source is set afterwards, the first
\* video frame written to the slot is frame 0 of that source.
C20_StaleSeekDropped ==
  [][(image'.k = "video" /\ image.k # "video") => image'.i = 0]_vars

====
